---- MODULE Spec2Model ----
(***************************************************************************)
(* Model of bsky-firehose-listener (src/src/main.rs): the consumption loop *)
(* of main, the task spawned for every binary message (frame split,        *)
(* envelope gate, commit decode, archive parse, operation dispatch), the   *)
(* haiku heuristic and the haiku sink.                                     *)
(***************************************************************************)
EXTENDS Integers, Sequences, FiniteSets, TLC

VARIABLES
    mainpc,   \* position of main: "recv" (awaiting stream.next()) or "exited"
    mainlog,  \* log lines emitted by the consumption loop itself
    tasks,    \* one entry per tokio::task::spawn, in spawn order
    sink,     \* haikus.txt: the sequence of write(2) calls appended so far
    inbox,    \* the kinds of the stream items received so far, in order
    text,     \* input of the classifier specification
    verdict,  \* its result: "none" before the call, then "haiku" or "rejected"
    buffer,   \* input of the frame specification: the bytes of one binary message
    frames    \* its result: the two byte ranges the message was split into

vars == <<mainpc, mainlog, tasks, sink, inbox, text, verdict, buffer, frames>>

(***************************************************************************)
(* Bounds of the model.                                                    *)
(***************************************************************************)
MaxMsgs == 2    \* stream items the consumption loop receives
MaxOps == 2     \* operations of a commit
MaxWords == 13  \* longest text without a line break, in words
MaxLines == 3   \* most line breaks of a text with line breaks

(***************************************************************************)
(* Post text.  A text is a sequence of tokens: NL is a line break '\n',    *)
(* a positive token is one whitespace-separated word, given by the number  *)
(* of syllables the estimator counts in it.                                *)
(***************************************************************************)
NL == 0
WordSyl == {1, 2}
ChunkSize == 5

RECURSIVE SumSeq(_)
SumSeq(s) == IF s = <<>> THEN 0 ELSE Head(s) + SumSeq(Tail(s))

\* text.contains('\n')
ContainsNewline(toks) == \E i \in DOMAIN toks : toks[i] = NL

\* str::split('\n'): the segments between line breaks, empty ones included.
RECURSIVE SplitNL(_)
SplitNL(toks) ==
    IF ~ContainsNewline(toks) THEN << toks >>
    ELSE LET i == CHOOSE k \in DOMAIN toks :
                      toks[k] = NL /\ \A j \in 1..(k - 1) : toks[j] # NL
         IN  << SubSeq(toks, 1, i - 1) >> \o SplitNL(SubSeq(toks, i + 1, Len(toks)))

\* str::lines(): split at line breaks; a final empty line is not a line.
Lines(toks) ==
    LET segs == SplitNL(toks)
    IN  IF segs[Len(segs)] = <<>> THEN SubSeq(segs, 1, Len(segs) - 1) ELSE segs

\* slice::chunks(n): consecutive chunks of n elements, the last one possibly shorter.
RECURSIVE Chunks(_, _)
Chunks(words, n) ==
    IF words = <<>> THEN <<>>
    ELSE IF Len(words) <= n THEN << words >>
    ELSE << SubSeq(words, 1, n) >> \o Chunks(SubSeq(words, n + 1, Len(words)), n)

\* syllarust::estimate_syllables on one line: the syllables of its words.
estimate_syllables(line) == SumSeq(line)

\* text.split_whitespace(): the words of a text (line breaks are whitespace).
split_whitespace(toks) == SelectSeq(toks, LAMBDA t : t # NL)

\* The lines is_haiku counts syllables of.
haiku_lines(toks) ==
    IF ContainsNewline(toks) THEN Lines(toks)
    ELSE Chunks(split_whitespace(toks), ChunkSize)

\* A comparison that stops at the shorter of the two vectors (zip).
is_haiku_zip(toks) ==
    LET lines == haiku_lines(toks)
    IN  /\ Len(lines) <= 3
        /\ \A k \in DOMAIN lines : estimate_syllables(lines[k]) = << 5, 7, 5 >>[k]
\* Lines 32-49: exactly three lines, of 5, 7 and 5 syllables.
is_haiku(toks) ==
    LET lines == haiku_lines(toks)
    IN  /\ Len(lines) = 3
        /\ << estimate_syllables(lines[1]),
              estimate_syllables(lines[2]),
              estimate_syllables(lines[3]) >> = << 5, 7, 5 >>

\* whatlang::detect(text): the detected language, "none" when indeterminate.
Langs == {"eng", "fra", "none"}
\* A language test that lets an undetected language pass.
is_english_lenient(t) == t.lang \in {"eng", "none"}
\* Lines 28-30: detect(text) is Some and its language is English.
is_english(t) == t.lang = "eng"

NoText == [toks |-> <<>>, lang |-> "none"]

\* "An old silent pond / A frog jumps into the pond / Splash! Silence again"
Basho == [toks |-> <<1, 1, 2, 1, NL, 1, 1, 1, 2, 1, 1, NL, 1, 2, 2>>, lang |-> "eng"]
\* An English post that is no haiku.
Prose == [toks |-> <<1, 2, 1>>, lang |-> "eng"]

\* More post texts: the haiku in French and in no detectable language, with a
\* fourth line, with a last line of six syllables, with a final line break,
\* and thirteen words without a line break whose chunks of five count 5, 7, 5.
French == [Basho EXCEPT !.lang = "fra"]
Undetected == [Basho EXCEPT !.lang = "none"]
FourLines == [Basho EXCEPT !.toks = @ \o << NL, 1 >>]
LongLast == [Basho EXCEPT !.toks = << 1, 1, 2, 1, NL, 1, 1, 1, 2, 1, 1, NL, 2, 2, 2 >>]
FinalBreak == [Basho EXCEPT !.toks = @ \o << NL >>]
Unbroken == [Basho EXCEPT !.toks = << 1, 1, 1, 1, 1, 1, 1, 1, 2, 2, 1, 2, 2 >>]

(***************************************************************************)
(* Wire data.  A generic (Ipld) value is a tagged record; Absent stands    *)
(* for a key the map does not hold.                                        *)
(***************************************************************************)
IpldInt(n) == [tag |-> "Integer", i |-> n, s |-> ""]
IpldStr(x) == [tag |-> "String", i |-> 0, s |-> x]
IpldBytes == [tag |-> "Bytes", i |-> 0, s |-> ""]
Absent == [tag |-> "Absent", i |-> 0, s |-> ""]

OpVals == {Absent, IpldStr("1"), IpldInt(-1), IpldInt(1)}
TVals == {Absent, IpldBytes, IpldStr("#commit"), IpldStr("#identity")}

\* The first value of a frame: a map with its "op" and "t" entries, or not a map.
NotAMap == [isMap |-> FALSE, op |-> Absent, t |-> Absent]
Metas == {NotAMap} \cup [isMap : {TRUE}, op : OpVals, t : TVals]
CommitMeta == [isMap |-> TRUE, op |-> IpldInt(1), t |-> IpldStr("#commit")]

\* A repository path is a string; it is kept as the sequence of the pieces the
\* dispatcher's prefix tests can tell apart, so that starts_with is the prefix
\* relation on sequences.
PostNs == << "app.bsky.feed.post" >>
LikeNs == << "app.bsky.feed.like" >>
RepostNs == << "app.bsky.feed.repost" >>
FollowNs == << "app.bsky.graph.follow" >>
PostPath == PostNs \o << "/", "3k" >>
LikePath == LikeNs \o << "/", "3k" >>
RepostPath == RepostNs \o << "/", "3k" >>
FollowPath == FollowNs \o << "/", "3k" >>
PostgatePath == PostNs \o << "gate", "/", "3k" >>
UnknownPath == << "app.bsky.unknown.thing", "/", "3k" >>
Paths == {PostPath, LikePath, RepostPath, FollowPath, PostgatePath, UnknownPath}

\* str::starts_with
StartsWith(path, prefix) ==
    /\ Len(path) >= Len(prefix)
    /\ SubSeq(path, 1, Len(prefix)) = prefix

\* The collection of a path: the text before the first '/'.
Collection(path) ==
    LET i == CHOOSE k \in DOMAIN path :
                 path[k] = "/" /\ \A j \in 1..(k - 1) : path[j] # "/"
    IN  SubSeq(path, 1, i - 1)

\* Content identifiers in string form; NoCid is Option::None of operation.cid.
NoCid == "None"
Cids == {"cH", "cP", "cL", "cF", "cG"}

\* A block's bytes, by what they decode to.  "strongref" is the shape shared by
\* like and repost records ({subject: {uri, cid}, createdAt}).
\* Like and repost records name their subject by its uri, a follow by its did.
NoSubject == ""
PostUri == "at://did:plc:a/app.bsky.feed.post/3k"
Did == "did:plc:b"
Bytes(shape, txt) == [shape |-> shape, text |-> txt, subject |-> NoSubject]
SubjectBytes(shape, subj) == [shape |-> shape, text |-> NoText, subject |-> subj]
Block(c, b) == [cid |-> c, bytes |-> b]

\* The archive of the commits of the model: cH is stored twice, first as the haiku.
Car ==
    << Block("cH", Bytes("post", Basho)),
       Block("cP", Bytes("post", Prose)),
       Block("cL", SubjectBytes("strongref", PostUri)),
       Block("cF", SubjectBytes("follow", Did)),
       Block("cG", Bytes("postgate", NoText)),
       Block("cH", Bytes("post", Prose)) >>

\* An archive of posts only, one per text, and a like.
TextCids == {"tF", "tU", "t4", "t6", "tB", "tW"}
TextCar ==
    << Block("tF", Bytes("post", French)),
       Block("tU", Bytes("post", Undetected)),
       Block("t4", Bytes("post", FourLines)),
       Block("t6", Bytes("post", LongLast)),
       Block("tB", Bytes("post", FinalBreak)),
       Block("tW", Bytes("post", Unbroken)),
       Block("cL", SubjectBytes("strongref", PostUri)) >>

Operation(a, p, c) == [action |-> a, path |-> p, cid |-> c]

\* The second value of a frame: a commit, or bytes that are no commit.
BadCommit == [isCommit |-> FALSE, carOk |-> FALSE, blocks |-> <<>>, ops |-> <<>>]
Commit(ops) == [isCommit |-> TRUE, carOk |-> TRUE, blocks |-> Car, ops |-> ops]
TextCommit(ops) == [Commit(ops) EXCEPT !.blocks = TextCar]
BadCarCommit(ops) == [isCommit |-> TRUE, carOk |-> FALSE, blocks |-> <<>>, ops |-> ops]

\* A binary message: "two" values, only "one" value, or an "invalid" first value.
Frame(shape, meta, body) == [shape |-> shape, meta |-> meta, body |-> body]

(***************************************************************************)
(* The bytes of a message, as far as the split of lines 90-93 reads them:  *)
(* DAG-CBOR values that are integers, text strings, or maps with text keys, *)
(* each with a one-byte head (major type in the high bits, the value or the *)
(* length in the low five, below 24).  Text is a sequence of byte values.   *)
(***************************************************************************)
CborInt(n) == [tag |-> "Integer", i |-> n, s |-> <<>>, m |-> <<>>]
CborStr(x) == [tag |-> "String", i |-> 0, s |-> x, m |-> <<>>]
CborMap(es) == [tag |-> "Map", i |-> 0, s |-> <<>>, m |-> es]
Entry(k, v) == [key |-> k, val |-> v]

HeadNeg == 32      \* major type 1, negative integers
HeadText == 96     \* major type 3, text strings
HeadMap == 160     \* major type 5, maps
Immediate == 24    \* low five bits below this are the value itself

\* The encoding of a value.
RECURSIVE Encode(_), EncodeEntries(_)
Encode(v) ==
    CASE v.tag = "Integer" -> << IF v.i >= 0 THEN v.i ELSE HeadNeg + (-1 - v.i) >>
      [] v.tag = "String" -> << HeadText + Len(v.s) >> \o v.s
      [] v.tag = "Map" -> << HeadMap + Len(v.m) >> \o EncodeEntries(v.m)
EncodeEntries(es) ==
    IF es = <<>> THEN <<>>
    ELSE Encode(CborStr(Head(es).key)) \o Encode(Head(es).val) \o EncodeEntries(Tail(es))

\* Reading one value at pos: the value and the position behind it, or a failure.
DecodeOk(v, next) == [ok |-> TRUE, val |-> v, next |-> next]
DecodeFail == [ok |-> FALSE, val |-> CborInt(0), next |-> 0]
RECURSIVE DecodeAt(_, _), DecodeEntries(_, _, _, _)
DecodeAt(buf, pos) ==
    IF pos > Len(buf) THEN DecodeFail
    ELSE LET h == buf[pos]
         IN  IF h \in 0..(Immediate - 1)
               THEN DecodeOk(CborInt(h), pos + 1)
             ELSE IF h \in HeadNeg..(HeadNeg + Immediate - 1)
               THEN DecodeOk(CborInt(-1 - (h - HeadNeg)), pos + 1)
             ELSE IF h \in HeadText..(HeadText + Immediate - 1)
               THEN LET n == h - HeadText
                    IN  IF pos + n > Len(buf) THEN DecodeFail
                        ELSE DecodeOk(CborStr(SubSeq(buf, pos + 1, pos + n)), pos + n + 1)
             ELSE IF h \in HeadMap..(HeadMap + Immediate - 1)
               THEN DecodeEntries(buf, pos + 1, h - HeadMap, <<>>)
             ELSE DecodeFail
DecodeEntries(buf, pos, n, acc) ==
    IF n = 0 THEN DecodeOk(CborMap(acc), pos)
    ELSE LET k == DecodeAt(buf, pos)
         IN  IF ~k.ok \/ k.val.tag # "String" THEN DecodeFail
             ELSE LET v == DecodeAt(buf, k.next)
                  IN  IF ~v.ok THEN DecodeFail
                      ELSE DecodeEntries(buf, v.next, n - 1, Append(acc, Entry(k.val.s, v.val)))

\* A reader whose test for trailing data consumes the byte it looks at.
CursorAfterPeek(d) == d.next
\* cursor.position() after from_reader read a value d: the bytes of the value;
\* the test for trailing data (Deserializer::end) peeks and consumes nothing.
CursorAfter(d) == d.next - 1

\* serde_ipld_dagcbor::from_reader::<Ipld, _>(&mut cursor): one value, then the
\* end of the input is demanded; Err(TrailingData) when a byte is left.
from_reader(buf) ==
    LET d == DecodeAt(buf, 1)
    IN  [ok |-> d.ok /\ d.next > Len(buf), val |-> d.val, position |-> CursorAfter(d)]

\* serde_ipld_dagcbor::from_slice::<Ipld>(bytes): the same on a slice.
from_slice(bytes) ==
    LET d == DecodeAt(bytes, 1)
    IN  [ok |-> d.ok /\ d.next > Len(bytes), val |-> d.val]

\* data.split_at(mid)
split_at(buf, mid) == [metadata |-> SubSeq(buf, 1, mid), data |-> SubSeq(buf, mid + 1, Len(buf))]

\* The result of the split: not made yet, made, or a panic of lines 92 / 96.
NoFrames == [pc |-> "start", metadata |-> <<>>, data |-> <<>>, panic |-> ""]

(***************************************************************************)
(* Log lines.  lvl is "info" or "error" (tracing) or "panic" (the message  *)
(* of a panicking expect/unwrap, printed by the panic hook).               *)
(***************************************************************************)
Log(lvl, what, c, p, txt) ==
    [lvl |-> lvl, what |-> what, cid |-> c, path |-> p, text |-> txt, subject |-> NoSubject]
Line(lvl, what) == Log(lvl, what, NoCid, <<>>, NoText)

\* A task as tokio::task::spawn creates it: nothing of the closure has run.
NewTask(data) ==
    [ msg |-> data,
      pc |-> "spawned",        \* spawned, ops, save, write, done, dropped, panicked, abandoned
      idx |-> 0,               \* operations of commit.ops the loop is through with
      frag |-> 0,              \* pieces of the current haiku record written so far
      log |-> <<>>,            \* its log lines, each with the position of the operation
                               \* it is about (0: none)
      commitDecode |-> FALSE,  \* from_slice::<Commit> was called
      carRead |-> FALSE,       \* car_read_all was called
      lookups |-> {},          \* operations (by position) whose block was looked up
      saves |-> {},            \* operations for which save_haiku_to_file was called
      records |-> <<>> ]       \* Records decoded, with the position of their operation

\* The lines an operation logs, each with the operation's position.
At(pos, lines) == [k \in DOMAIN lines |-> [op |-> pos, line |-> lines[k]]]

\* map.get(key) with a default for a missing entry (unwrap_or).
GetOrCommitDefault(meta, key) ==
    IF key = "op" THEN (IF meta.op = Absent THEN IpldInt(1) ELSE meta.op)
    ELSE (IF meta.t = Absent THEN IpldStr("#commit") ELSE meta.t)
\* map.get("op") / map.get("t"): the entry, Absent when the map has none.
Get(meta, key) == IF key = "op" THEN meta.op ELSE meta.t

\* A gate without the test of line 109.
IsErrorOpNever(n) == FALSE
\* Line 109: `*op_id == -1`.
IsErrorOp(n) == n = -1

\* Lines 90-131: the frame split, the envelope gate, the commit decode and the
\* archive parse.  The result is where the closure stands after them.
Gate(data) ==
    LET stop(pc, l, cd, cr) == [pc |-> pc, log |-> l, commitDecode |-> cd, carRead |-> cr]
        meta == data.meta
        body == data.body
        op == Get(meta, "op")
        t == Get(meta, "t")
    IN  IF data.shape = "one"
          THEN stop("panicked", At(0, << Line("panic", "Somehow bsky only sends 1 frame.") >>), FALSE, FALSE)
        ELSE IF data.shape = "invalid"
          THEN stop("panicked", At(0, << Line("panic", "Valid data turns out to be invalid") >>), FALSE, FALSE)
        ELSE IF ~meta.isMap
          THEN stop("dropped", At(0, << Line("error", "Expected a map, got something else") >>), FALSE, FALSE)
        ELSE IF op = Absent
          THEN stop("panicked", At(0, << Line("panic", "Malformed frame, op is missing") >>), FALSE, FALSE)
        ELSE IF op.tag # "Integer"
          THEN stop("dropped", At(0, << Line("error", "Expected op to be an integer") >>), FALSE, FALSE)
        ELSE IF IsErrorOp(op.i)
          THEN stop("dropped", At(0, << Line("error", "Bluesky sent op=-1 (error). Ignoring message.") >>), FALSE, FALSE)
        ELSE IF t = Absent
          THEN stop("panicked", At(0, << Line("panic", "Malformed frame, t is missing") >>), FALSE, FALSE)
        ELSE IF t.tag # "String"
          THEN stop("dropped", At(0, << Line("error", "Expected t to be a string") >>), FALSE, FALSE)
        ELSE IF t.s # "#commit"
          THEN stop("dropped", <<>>, FALSE, FALSE)
        ELSE IF ~body.isCommit
          THEN stop("panicked", At(0, << Line("panic", "Malformed bsky #commit data") >>), TRUE, FALSE)
        ELSE IF ~body.carOk
          THEN stop("panicked", At(0, << Line("panic", "CAR file is invalid") >>), TRUE, TRUE)
        ELSE IF body.ops = <<>>
          THEN stop("done", <<>>, TRUE, TRUE)
        ELSE stop("ops", <<>>, TRUE, TRUE)

\* A lookup in which an absent cid matches the first block.
FindBlockNoneFirst(items, c) ==
    IF c = NoCid THEN (IF items = <<>> THEN 0 ELSE 1)
    ELSE IF \E k \in DOMAIN items : items[k].cid = c
      THEN CHOOSE k \in DOMAIN items :
               items[k].cid = c /\ \A j \in 1..(k - 1) : items[j].cid # c
      ELSE 0
\* A lookup that returns the last block with the cid, as a map built from the
\* archive would.
FindBlockLast(items, c) ==
    IF c # NoCid /\ \E k \in DOMAIN items : items[k].cid = c
      THEN CHOOSE k \in DOMAIN items :
               items[k].cid = c /\ \A j \in (k + 1)..Len(items) : items[j].cid # c
      ELSE 0
\* items_iter.clone().find(..): the position of the first block whose content-id
\* string equals the operation's cid, 0 when there is none (None equals no block).
FindBlock(items, c) ==
    IF c # NoCid /\ \E k \in DOMAIN items : items[k].cid = c
      THEN CHOOSE k \in DOMAIN items :
               items[k].cid = c /\ \A j \in 1..(k - 1) : items[j].cid # c
      ELSE 0

\* The arm of `match operation.path.as_str()` a path takes.
Arm(path) ==
    IF StartsWith(path, PostNs) THEN "post"
    ELSE IF StartsWith(path, LikeNs) THEN "like"
    ELSE IF StartsWith(path, RepostNs) THEN "repost"
    ELSE IF StartsWith(path, FollowNs) THEN "follow"
    ELSE "unknown"

\* from_reader::<V::Record>(bytes).is_ok(), V the variant of the arm.
DecodesAs(arm, bytes) ==
    \/ arm = "post" /\ bytes.shape = "post"
    \/ arm \in {"like", "repost"} /\ bytes.shape = "strongref"
    \/ arm = "follow" /\ bytes.shape = "follow"

Summary(arm) ==
    CASE arm = "post" -> "New post"
      [] arm = "like" -> "New like"
      [] arm = "repost" -> "New repost"
      [] arm = "follow" -> "New follow"

\* Lines 161, 166, 171, 176: info!("New <variant>: {:?} - ..", operation.cid,
\* <the text, or the subject>).
SummaryLine(arm, operation, bytes) ==
    [Log("info", Summary(arm), operation.cid, <<>>, bytes.text)
        EXCEPT !.subject = bytes.subject]

\* A filter that lets updates through as well.
IsCreateOrUpdate(operation) == operation.action \in {"create", "update"}
\* Line 134: `operation.action != "create"` skips the operation.
IsCreate(operation) == operation.action = "create"

\* Lines 134-182 for one operation, up to the call of save_haiku_to_file:
\* lookup says whether the block was looked up, pre are the lines logged before
\* the save (all the lines, when nothing is saved), post the line after it.
Dispatch(items, operation) ==
    LET k == FindBlock(items, operation.cid)
        out(lk, rec, sv, pre, post) ==
            [lookup |-> lk, found |-> lk /\ k # 0, record |-> rec, save |-> sv,
             pre |-> pre, post |-> post]
        arm == Arm(operation.path)
        bytes == items[k].bytes
    IN  IF ~IsCreate(operation)
          THEN out(FALSE, <<>>, FALSE, <<>>, <<>>)
        ELSE IF k = 0
          THEN out(TRUE, <<>>, FALSE,
                   << Log("error", "Could not find block for CID", operation.cid, <<>>, NoText) >>, <<>>)
        ELSE IF arm = "unknown"
          THEN out(TRUE, <<>>, FALSE,
                   << Log("info", "Unknown event type", NoCid, operation.path, NoText) >>, <<>>)
        ELSE IF ~DecodesAs(arm, bytes)
          THEN out(TRUE, <<>>, FALSE, <<>>, <<>>)
        ELSE IF arm = "post" /\ is_english(bytes.text) /\ is_haiku(bytes.text.toks)
          THEN out(TRUE, << [variant |-> arm, block |-> k] >>, TRUE,
                   << Log("info", "New haiku found:", NoCid, <<>>, bytes.text) >>,
                   << SummaryLine(arm, operation, bytes) >>)
        ELSE out(TRUE, << [variant |-> arm, block |-> k] >>, FALSE,
                 << SummaryLine(arm, operation, bytes) >>, <<>>)

(***************************************************************************)
(* The consumption loop (lines 80-194).                                    *)
(***************************************************************************)
CanRecv == mainpc = "recv" /\ Len(inbox) < MaxMsgs

\* stream.next() yields Some(Err(e)): logged, `continue`.
RecvErr ==
    /\ CanRecv
    /\ inbox' = Append(inbox, "err")
    /\ mainlog' = Append(mainlog, Line("info", "Error connecting to Firehose"))
    /\ UNCHANGED <<mainpc, tasks, sink, text, verdict, buffer, frames>>

\* A loop that awaits the JoinHandle of each task before it reads on.
RecvBinaryAwait(data) ==
    /\ CanRecv
    /\ \A i \in DOMAIN tasks : tasks[i].pc \in {"done", "dropped", "panicked"}
    /\ inbox' = Append(inbox, "binary")
    /\ tasks' = Append(tasks, NewTask(data))
    /\ UNCHANGED <<mainpc, mainlog, sink, text, verdict, buffer, frames>>
\* Message::Binary(data): the closure is spawned, the loop goes on at once.
RecvBinary(data) ==
    /\ CanRecv
    /\ inbox' = Append(inbox, "binary")
    /\ tasks' = Append(tasks, NewTask(data))
    /\ UNCHANGED <<mainpc, mainlog, sink, text, verdict, buffer, frames>>

\* A close frame that ends the loop (`break`), main returning after it.
RecvCloseBreak ==
    /\ CanRecv
    /\ inbox' = Append(inbox, "close")
    /\ mainlog' = Append(mainlog, Line("info", "Firehose disconnected us."))
    /\ mainpc' = "exited"
    /\ UNCHANGED <<tasks, sink, text, verdict, buffer, frames>>
\* Message::Close(_)
RecvClose ==
    /\ CanRecv
    /\ inbox' = Append(inbox, "close")
    /\ mainlog' = Append(mainlog, Line("info", "Firehose disconnected us."))
    /\ UNCHANGED <<mainpc, tasks, sink, text, verdict, buffer, frames>>

\* Any other message (text, ping, pong, raw frame): the `_ => {}` arm.
RecvOther ==
    /\ CanRecv
    /\ inbox' = Append(inbox, "other")
    /\ UNCHANGED <<mainpc, mainlog, tasks, sink, text, verdict, buffer, frames>>

\* A shutdown that also cuts off the tasks the workers are running.
ShutdownAll(ts) ==
    [i \in DOMAIN ts |->
        IF ts[i].pc \in {"done", "dropped", "panicked"} THEN ts[i]
        ELSE [ts[i] EXCEPT !.pc = "abandoned"]]
\* What the end of main does to the tasks: #[tokio::main] drops the runtime when
\* main returns; a task no worker has started is dropped unrun, a task a worker
\* is running has no await that suspends it and runs on to its end.
Shutdown(ts) ==
    [i \in DOMAIN ts |->
        IF ts[i].pc = "spawned" THEN [ts[i] EXCEPT !.pc = "abandoned"] ELSE ts[i]]

\* stream.next() yields None: the loop ends, main logs and returns.
StreamEnd ==
    /\ mainpc = "recv"
    /\ mainpc' = "exited"
    /\ mainlog' = Append(mainlog, Line("info", "Disconnected from Firehose."))
    /\ tasks' = Shutdown(tasks)
    /\ UNCHANGED <<sink, inbox, text, verdict, buffer, frames>>

(***************************************************************************)
(* The spawned closure (lines 89-184), one action per stretch of it that   *)
(* touches nothing shared.                                                 *)
(***************************************************************************)
Live(i) == i \in DOMAIN tasks

\* A panic that takes the process down (panic = "abort"): no task goes on.
ContainAbort(i, t) ==
    IF t.pc = "panicked"
      THEN [j \in DOMAIN tasks |->
              IF j = i THEN t
              ELSE IF tasks[j].pc \in {"done", "dropped", "panicked"} THEN tasks[j]
              ELSE [tasks[j] EXCEPT !.pc = "abandoned"]]
      ELSE [tasks EXCEPT ![i] = t]
\* How the end of a step of task i reaches the rest of the program: a panic
\* unwinds the task only (nobody awaits its JoinHandle), a return ends it.
Contain(i, t) == [tasks EXCEPT ![i] = t]

\* The end of the loop body: on to the next operation, or done.
Advance(t) ==
    [t EXCEPT !.idx = @ + 1,
              !.frag = 0,
              !.pc = IF t.idx + 1 = Len(t.msg.body.ops) THEN "done" ELSE "ops"]

\* A `break` in the place of the `continue` of line 143.
NotFoundBreak(t) == [t EXCEPT !.pc = "done"]
\* Line 143: `continue` after the block was not found.
NotFoundContinue(t) == Advance(t)


\* Lines 90-131.
TaskStart(i) ==
    /\ Live(i) /\ tasks[i].pc = "spawned"
    /\ LET g == Gate(tasks[i].msg)
       IN  tasks' = Contain(i, [tasks[i] EXCEPT !.pc = g.pc,
                                                !.log = g.log,
                                                !.commitDecode = g.commitDecode,
                                                !.carRead = g.carRead])
    /\ UNCHANGED <<mainpc, mainlog, sink, inbox, text, verdict, buffer, frames>>

\* Lines 133-182 for the next operation, up to the call of save_haiku_to_file.
TaskOp(i) ==
    /\ Live(i) /\ tasks[i].pc = "ops"
    /\ LET t == tasks[i]
           pos == t.idx + 1
           operation == t.msg.body.ops[pos]
           d == Dispatch(t.msg.body.blocks, operation)
           seen == [t EXCEPT !.log = @ \o At(pos, d.pre),
                             !.lookups = IF d.lookup THEN @ \cup {pos} ELSE @,
                             !.records = @ \o [k \in DOMAIN d.record |->
                                                  [op |-> pos,
                                                   variant |-> d.record[k].variant,
                                                   block |-> d.record[k].block]]]
       IN  tasks' = Contain(i,
               IF d.lookup /\ ~d.found THEN NotFoundContinue(seen)
               ELSE IF ~d.save THEN Advance(seen)
               ELSE IF operation.cid = NoCid   \* operation.cid.as_ref().unwrap()
                 THEN [seen EXCEPT !.pc = "panicked",
                                   !.log = @ \o At(pos, << Line("panic", "called Option::unwrap() on a None value") >>)]
               ELSE [seen EXCEPT !.pc = "save", !.saves = @ \cup {pos}])
    /\ UNCHANGED <<mainpc, mainlog, sink, inbox, text, verdict, buffer, frames>>

\* The post's summary in an else of the haiku test: none for a haiku.
SavedNoSummary(t, ok) ==
    Advance([t EXCEPT !.log = @ \o At(t.idx + 1,
               << IF ok THEN Line("info", "Haiku saved to file")
                        ELSE Line("error", "Failed to save haiku") >>)])
\* A failed save that ends the closure, as a `?` on its result would.
SavedOrReturn(t, ok) ==
    IF ok
      THEN Advance([t EXCEPT !.log = @ \o At(t.idx + 1,
               << Line("info", "Haiku saved to file") >>
                 \o Dispatch(t.msg.body.blocks, t.msg.body.ops[t.idx + 1]).post)])
      ELSE [t EXCEPT !.pc = "done",
                     !.log = @ \o At(t.idx + 1, << Line("error", "Failed to save haiku") >>)]
\* The end of lines 155-161: the outcome of the save is logged, then the post.
Saved(t, ok) ==
    LET operation == t.msg.body.ops[t.idx + 1]
        d == Dispatch(t.msg.body.blocks, operation)
    IN  Advance([t EXCEPT !.log = @ \o At(t.idx + 1,
                   << IF ok THEN Line("info", "Haiku saved to file")
                            ELSE Line("error", "Failed to save haiku") >> \o d.post)])

\* save_haiku_to_file, lines 52-55: OpenOptions::open, which may fail.
SaveOpen(i, ok) ==
    /\ Live(i) /\ tasks[i].pc = "save"
    /\ tasks' = Contain(i, IF ok THEN [tasks[i] EXCEPT !.pc = "write"]
                                 ELSE Saved(tasks[i], FALSE))
    /\ UNCHANGED <<mainpc, mainlog, sink, inbox, text, verdict, buffer, frames>>

\* The pieces writeln!(file, "CID: {}\n{}\n", cid, haiku) hands to the file: File
\* is unbuffered, so write_fmt makes one write call per literal piece and per
\* argument of the format string.
Pieces == 5
Piece(k, c, txt) ==
    [ lit |-> CASE k = 1 -> "CID: " [] k = 3 -> "\n" [] k = 5 -> "\n\n" [] OTHER -> "",
      cid |-> IF k = 2 THEN c ELSE NoCid,
      text |-> IF k = 4 THEN txt ELSE NoText ]

\* One whole record, as one write would append it.
RecordPieces(c, txt) == [k \in 1..Pieces |-> Piece(k, c, txt)]

\* save_haiku_to_file, line 56: the next write call on the O_APPEND file; an
\* error ends the function (`?`) with what was written left in the file.
SaveWrite(i, ok) ==
    /\ Live(i) /\ tasks[i].pc = "write"
    /\ LET t == tasks[i]
           operation == t.msg.body.ops[t.idx + 1]
           blk == t.msg.body.blocks[FindBlock(t.msg.body.blocks, operation.cid)]
           k == t.frag + 1
       IN  IF ok
             THEN /\ sink' = Append(sink, Piece(k, operation.cid, blk.bytes.text))
                  /\ tasks' = Contain(i, IF k = Pieces THEN Saved(t, TRUE)
                                                       ELSE [t EXCEPT !.frag = k])
             ELSE /\ sink' = sink
                  /\ tasks' = Contain(i, Saved(t, FALSE))
    /\ UNCHANGED <<mainpc, mainlog, inbox, text, verdict, buffer, frames>>

(***************************************************************************)
(* Inputs.                                                                 *)
(***************************************************************************)
SeqsUpTo(S, n) == UNION {[1..k -> S] : k \in 0..n}

HaikuOp == Operation("create", PostPath, "cH")
HaikuCommit == Commit(<< HaikuOp >>)

\* The binary messages of the concurrent specification.
StreamMsgs ==
    { Frame("one", NotAMap, BadCommit),
      Frame("two", [CommitMeta EXCEPT !.op = Absent], HaikuCommit),
      Frame("two", CommitMeta, BadCommit),
      Frame("two", CommitMeta, BadCarCommit(<< HaikuOp >>)),
      Frame("two", CommitMeta, HaikuCommit) }

\* The operations of the commits of the single-task specification.
OpCids == {NoCid, "cH", "cP", "cL", "cF", "cX"}
OpSet ==
    [action : {"create"}, path : Paths, cid : OpCids]
      \cup [action : {"update", "delete"}, path : {PostPath, UnknownPath}, cid : {NoCid, "cH"}]

\* The operations of its commits over the archive of texts.
TextOps == [action : {"create"}, path : {PostPath, LikePath}, cid : TextCids \cup {"cL"}]

\* Its messages: every envelope before a commit that would yield a haiku and
\* before bytes that are no commit, and every commit behind a "#commit" envelope.
TaskMsgs ==
    { Frame("one", NotAMap, BadCommit), Frame("invalid", NotAMap, BadCommit) }
      \cup { Frame("two", m, b) : m \in Metas, b \in {BadCommit, HaikuCommit} }
      \cup { Frame("two", CommitMeta, BadCarCommit(<< HaikuOp >>)) }
      \cup { Frame("two", CommitMeta, Commit(ops)) : ops \in SeqsUpTo(OpSet, MaxOps) }

\* And every commit over the archive of texts behind a "#commit" envelope.
TextMsgs ==
    { Frame("two", CommitMeta, TextCommit(ops)) : ops \in SeqsUpTo(TextOps, MaxOps) }

\* The texts of the classifier specification: without a line break, every
\* sequence of words; with line breaks, up to MaxLines + 1 short lines, with or
\* without a final line break.
LineSet == SeqsUpTo({2, 5}, 2)
RECURSIVE Join(_)
Join(ls) == IF Len(ls) = 1 THEN ls[1] ELSE ls[1] \o << NL >> \o Join(Tail(ls))
NlTexts ==
    { Join(ls) \o end : ls \in SeqsUpTo(LineSet, MaxLines + 1) \ {<<>>},
                        end \in {<<>>, << NL >>} }
Texts == [toks : SeqsUpTo(WordSyl, MaxWords) \cup NlTexts, lang : Langs]

(***************************************************************************)
(* Specifications.                                                         *)
(***************************************************************************)
\* The program after the connection is made (line 78).
Init ==
    /\ mainpc = "recv"
    /\ mainlog = << Line("info", "Connected to Firehose.") >>
    /\ tasks = <<>>
    /\ sink = <<>>
    /\ inbox = <<>>
    /\ text = NoText
    /\ verdict = "none"
    /\ buffer = <<>>
    /\ frames = NoFrames

Next ==
    \/ RecvErr
    \/ \E data \in StreamMsgs : RecvBinary(data)
    \/ RecvClose
    \/ RecvOther
    \/ StreamEnd
    \/ \E i \in DOMAIN tasks : TaskStart(i)
    \/ \E i \in DOMAIN tasks : TaskOp(i)
    \/ \E i \in DOMAIN tasks, ok \in BOOLEAN : SaveOpen(i, ok)
    \/ \E i \in DOMAIN tasks, ok \in BOOLEAN : SaveWrite(i, ok)

Spec == Init /\ [][Next]_vars

\* One spawned task, for any binary message.
InitTask ==
    /\ mainpc = "recv"
    /\ mainlog = << Line("info", "Connected to Firehose.") >>
    /\ \/ \E data \in TaskMsgs : tasks = << NewTask(data) >>
       \/ \E data \in TextMsgs : tasks = << NewTask(data) >>
    /\ sink = <<>>
    /\ inbox = << "binary" >>
    /\ text = NoText
    /\ verdict = "none"
    /\ buffer = <<>>
    /\ frames = NoFrames

NextTask ==
    \/ TaskStart(1)
    \/ TaskOp(1)
    \/ \E ok \in BOOLEAN : SaveOpen(1, ok)
    \/ \E ok \in BOOLEAN : SaveWrite(1, ok)

SpecTask == InitTask /\ [][NextTask]_vars

\* The classifier on any text: lines 150 and 28-49.
Classify ==
    /\ verdict = "none"
    /\ verdict' = IF is_english(text) /\ is_haiku(text.toks) THEN "haiku" ELSE "rejected"
    /\ UNCHANGED <<mainpc, mainlog, tasks, sink, inbox, text, buffer, frames>>

InitHaiku ==
    /\ mainpc = "recv"
    /\ mainlog = <<>>
    /\ tasks = <<>>
    /\ sink = <<>>
    /\ inbox = <<>>
    /\ text \in Texts
    /\ verdict = "none"
    /\ buffer = <<>>
    /\ frames = NoFrames

NextHaiku == Classify

SpecHaiku == InitHaiku /\ [][NextHaiku]_vars

\* Lines 90-96 on the bytes of one message.
Demultiplex ==
    /\ frames.pc = "start"
    /\ LET r == from_reader(buffer)
           parts == split_at(buffer, r.position)
       IN  frames' =
             IF r.ok
               THEN [NoFrames EXCEPT !.pc = "panicked",
                                     !.panic = "Somehow bsky only sends 1 frame."]
             ELSE IF ~from_slice(parts.metadata).ok
               THEN [NoFrames EXCEPT !.pc = "panicked",
                                     !.panic = "Valid data turns out to be invalid"]
             ELSE [pc |-> "split", metadata |-> parts.metadata, data |-> parts.data,
                   panic |-> ""]
    /\ UNCHANGED <<mainpc, mainlog, tasks, sink, inbox, text, verdict, buffer>>

\* The values of the frame specification: integers, strings, and maps like the
\* envelope {"op": .., "t": ..}; the byte values of the keys and of "#commit"
\* are themselves heads of strings and of negative integers.
KeyOp == << 111, 112 >>
KeyT == << 116 >>
StrCommit == << 35, 99, 111, 109, 109, 105, 116 >>
FrameInts == {CborInt(-1), CborInt(1)}
FrameStrs == {CborStr(<<>>), CborStr(StrCommit)}
FrameVals ==
    FrameInts \cup FrameStrs \cup {CborMap(<<>>)}
      \cup {CborMap(<< Entry(KeyOp, n) >>) : n \in FrameInts}
      \cup {CborMap(<< Entry(KeyOp, n), Entry(KeyT, x) >>) : n \in FrameInts, x \in FrameStrs}
      \cup {CborMap(<< Entry(KeyT, CborMap(<< Entry(KeyOp, n) >>)) >>) : n \in FrameInts}

\* One message: two values one after the other, or one value alone.
InitFrame ==
    /\ mainpc = "recv"
    /\ mainlog = <<>>
    /\ tasks = <<>>
    /\ sink = <<>>
    /\ inbox = <<>>
    /\ text = NoText
    /\ verdict = "none"
    /\ buffer \in {Encode(a) \o Encode(b) : a \in FrameVals, b \in FrameVals}
                   \cup {Encode(a) : a \in FrameVals}
    /\ frames = NoFrames

NextFrame == Demultiplex

SpecFrame == InitFrame /\ [][NextFrame]_vars

(***************************************************************************)
(* Properties.                                                             *)
(***************************************************************************)
Terminal == {"done", "dropped", "panicked", "abandoned"}
OpsOf(tk) == tk.msg.body.ops
ItemsOf(tk) == tk.msg.body.blocks

\* The lines task tk logged for the operation at pos.
LogAt(tk, pos) ==
    LET mine == SelectSeq(tk.log, LAMBDA e : e.op = pos)
    IN  [k \in DOMAIN mine |-> mine[k].line]
RecordsAt(tk, pos) == SelectSeq(tk.records, LAMBDA r : r.op = pos)

\* Nothing of the payload was touched: no commit decode, no archive parse, no
\* block lookup, no Record, no call of save_haiku_to_file.
PayloadUntouched(tk) ==
    /\ ~tk.commitDecode
    /\ ~tk.carRead
    /\ tk.lookups = {}
    /\ tk.records = <<>>
    /\ tk.saves = {}
    /\ tk.frag = 0
    /\ tk.pc \in {"spawned", "dropped", "panicked", "abandoned"}

\* C1: a message whose envelope has op = -1, or whose envelope has a t other
\* than "#commit", never has its payload decoded: no commit decode, no archive
\* parse, no block lookup, no Record and no sink append happen for it.
C1_EnvelopeGating ==
    \A i \in DOMAIN tasks :
        LET m == tasks[i].msg
        IN  (/\ m.shape = "two"
             /\ m.meta.isMap
             /\ (m.meta.op = IpldInt(-1) \/ m.meta.t # IpldStr("#commit")))
            => PayloadUntouched(tasks[i]) /\ sink = <<>>

\* An op = -1 envelope in front of a commit that would yield a haiku was dropped.
C1_Witness ==
    \E i \in DOMAIN tasks :
        /\ tasks[i].msg = Frame("two", [CommitMeta EXCEPT !.op = IpldInt(-1)], HaikuCommit)
        /\ tasks[i].pc = "dropped"
        /\ LogAt(tasks[i], 0) = << Line("error", "Bluesky sent op=-1 (error). Ignoring message.") >>

Malformed(m) ==
    /\ m.shape = "two"
    /\ \/ ~m.meta.isMap
       \/ m.meta.op.tag # "Integer"
       \/ m.meta.t.tag # "String"

\* C2: a message whose envelope is malformed (not a map, op missing or no
\* integer, t missing or no string) is rejected: once its task has started the
\* task has ended, by a return or by a panic, and the payload was never touched.
C2_MalformedRejected ==
    \A i \in DOMAIN tasks :
        Malformed(tasks[i].msg)
            => /\ PayloadUntouched(tasks[i])
               /\ sink = <<>>
               /\ tasks[i].pc # "spawned" => /\ tasks[i].pc \in {"dropped", "panicked"}
                                             /\ LogAt(tasks[i], 0) # <<>>

\* An envelope without "op" in front of a haiku commit ended its task.
C2_Witness ==
    \E i \in DOMAIN tasks :
        /\ tasks[i].msg = Frame("two", [CommitMeta EXCEPT !.op = Absent], HaikuCommit)
        /\ tasks[i].pc = "panicked"

\* C3: a failure of one message's task (a panic of an expect, or an early
\* return) changes nothing but that task: the consumption loop stands where it
\* stood and can read on, and every other task is left exactly as it was.
C3_FailureContained ==
    [][\A i \in DOMAIN tasks :
          (tasks[i].pc \notin Terminal /\ tasks'[i].pc \in {"panicked", "dropped"})
              => /\ mainpc' = mainpc
                 /\ mainlog' = mainlog
                 /\ inbox' = inbox
                 /\ sink' = sink
                 /\ DOMAIN tasks' = DOMAIN tasks
                 /\ \A j \in DOMAIN tasks \ {i} : tasks'[j] = tasks[j]]_vars

\* A task panicked on a one-frame message while the next message's task was
\* under way; the loop still reads, and the other task went on to its Record.
C3_Witness ==
    /\ Len(tasks) = 2
    /\ tasks[1].msg.shape = "one" /\ tasks[1].pc = "panicked"
    /\ tasks[2].pc = "done" /\ Len(tasks[2].records) = 1
    /\ tasks[2].idx = 1
    /\ mainpc = "recv"

\* C4: an operation whose action is not "create" never reaches block
\* resolution: no lookup, no Record, no log line and no save happen for it.
C4_OnlyCreateResolved ==
    \A i \in DOMAIN tasks :
        \A pos \in DOMAIN OpsOf(tasks[i]) :
            OpsOf(tasks[i])[pos].action # "create"
                => /\ pos \notin tasks[i].lookups
                   /\ pos \notin tasks[i].saves
                   /\ RecordsAt(tasks[i], pos) = <<>>
                   /\ LogAt(tasks[i], pos) = <<>>

\* An update of a post whose block is the haiku was passed over, and the create
\* after it was resolved.
C4_Witness ==
    \E i \in DOMAIN tasks :
        /\ OpsOf(tasks[i]) = << Operation("update", PostPath, "cH"), HaikuOp >>
        /\ tasks[i].pc = "done"
        /\ tasks[i].lookups = {2}

Resolves(items, c) == \E k \in DOMAIN items : items[k].cid = c
Without(ops, pos) == SubSeq(ops, 1, pos - 1) \o SubSeq(ops, pos + 1, Len(ops))
RECURSIVE RecordsOf(_, _)
RecordsOf(items, ops) ==
    IF ops = <<>> THEN <<>>
    ELSE Dispatch(items, Head(ops)).record \o RecordsOf(items, Tail(ops))
Produced(tk) ==
    [k \in DOMAIN tk.records |->
        [variant |-> tk.records[k].variant, block |-> tk.records[k].block]]

\* C5: a create operation whose cid is absent or matches no block logs one
\* error and nothing else; the task goes on, and when it is done it has
\* produced exactly the Records of the commit without that operation.
C5_SoftFailureIsolation ==
    \A i \in DOMAIN tasks :
        LET tk == tasks[i]
            ops == OpsOf(tk)
        IN  \A pos \in DOMAIN ops :
              (/\ tk.carRead /\ tk.msg.body.carOk
               /\ ops[pos].action = "create"
               /\ ~Resolves(ItemsOf(tk), ops[pos].cid))
                  => /\ tk.pc # "panicked"
                     /\ pos <= tk.idx =>
                          LogAt(tk, pos) = << Log("error", "Could not find block for CID",
                                                  ops[pos].cid, <<>>, NoText) >>
                     /\ tk.pc = "done" =>
                          /\ tk.idx = Len(ops)
                          /\ Produced(tk) = RecordsOf(ItemsOf(tk), Without(ops, pos))

\* A create without a cid came first, and the haiku post after it was decoded.
C5_Witness ==
    \E i \in DOMAIN tasks :
        /\ OpsOf(tasks[i]) = << Operation("create", PostPath, NoCid), HaikuOp >>
        /\ tasks[i].pc = "done"
        /\ Len(tasks[i].records) = 1
        /\ tasks[i].records[1].op = 2

KnownCollections == {PostNs, LikeNs, RepostNs, FollowNs}
UnknownLine(path) == Log("info", "Unknown event type", NoCid, path, NoText)

\* The block a resolved operation gets: the first one with its cid.
BlockOf(items, c) ==
    items[CHOOSE k \in DOMAIN items :
              items[k].cid = c /\ \A j \in 1..(k - 1) : items[j].cid # c]

\* C6: every create operation whose collection is not post, like, repost or
\* follow logs "unknown event type" and no other line, and yields no Record,
\* also when its cid is absent or matches no block.
C6_UnknownCollectionLogged ==
    \A i \in DOMAIN tasks :
        LET tk == tasks[i]
            ops == OpsOf(tk)
        IN  \A pos \in 1..tk.idx :
              (/\ ops[pos].action = "create"
               /\ Collection(ops[pos].path) \notin KnownCollections)
                  => /\ LogAt(tk, pos) = << UnknownLine(ops[pos].path) >>
                     /\ RecordsAt(tk, pos) = <<>>

\* C7: a create operation of a known collection whose block is found but does
\* not decode as the collection's Record logs a line for the failed decode,
\* yields no Record, and the task goes on.
C7_DecodeFailureLogged ==
    \A i \in DOMAIN tasks :
        LET tk == tasks[i]
            ops == OpsOf(tk)
        IN  \A pos \in 1..tk.idx :
              (/\ ops[pos].action = "create"
               /\ Resolves(ItemsOf(tk), ops[pos].cid)
               /\ Arm(ops[pos].path) # "unknown"
               /\ ~DecodesAs(Arm(ops[pos].path), BlockOf(ItemsOf(tk), ops[pos].cid).bytes))
                  => /\ LogAt(tk, pos) # <<>>
                     /\ RecordsAt(tk, pos) = <<>>
                     /\ tk.pc \in {"ops", "save", "write", "done"}

\* The number of saves the tasks report as done, and as failed.
RECURSIVE CountLines(_, _)
CountLines(lg, what) ==
    IF lg = <<>> THEN 0
    ELSE (IF Head(lg).line.what = what THEN 1 ELSE 0) + CountLines(Tail(lg), what)
RECURSIVE SumOver(_, _)
SumOver(ts, what) ==
    IF ts = <<>> THEN 0 ELSE CountLines(Head(ts).log, what) + SumOver(Tail(ts), what)

\* The file holds whole records only.
WholeRecords(sk) ==
    /\ Len(sk) % Pieces = 0
    /\ \A r \in 0..((Len(sk) \div Pieces) - 1) :
          \E c \in Cids, txt \in {Basho, Prose} :
              SubSeq(sk, r * Pieces + 1, r * Pieces + Pieces) = RecordPieces(c, txt)

\* C8: when N tasks have each appended their haiku (every save reported done,
\* none failed, no task still running), the file holds exactly N whole records,
\* none interleaved with another.
C8_RecordsNotInterleaved ==
    (/\ \A i \in DOMAIN tasks : tasks[i].pc \in Terminal
     /\ SumOver(tasks, "Failed to save haiku") = 0)
        => /\ WholeRecords(sink)
           /\ Len(sink) = Pieces * SumOver(tasks, "Haiku saved to file")

\* C9: no task is ever cancelled or abandoned.
C9_NoTaskAbandoned ==
    \A i \in DOMAIN tasks : tasks[i].pc # "abandoned"

\* C9 as amended: a task is abandoned only by the step in which the stream
\* ends and main returns, and only if no worker had started it; in every other
\* step (a receive error, a close frame, another task's failure) no task is
\* abandoned, and an abandoned task has run nothing.
C9_AbandonedOnlyAtExit ==
    [][\A i \in DOMAIN tasks :
          (tasks[i].pc # "abandoned" /\ tasks'[i].pc = "abandoned")
              => /\ mainpc = "recv" /\ mainpc' = "exited"
                 /\ tasks[i].pc = "spawned"
                 /\ tasks'[i].log = <<>>]_vars

\* The stream ended while one task was running and another had not started:
\* the first ran on to its Record, the second was dropped.
C9_Witness ==
    /\ Len(tasks) = 2
    /\ mainpc = "exited"
    /\ tasks[1].pc = "done" /\ tasks[1].records # <<>>
    /\ tasks[2].pc = "abandoned"
    /\ inbox = << "binary", "binary" >>

Words(t) == split_whitespace(t.toks)

\* C10: a text without a line break and with fewer than 15 words is rejected.
C10_Under15Rejected ==
    (/\ verdict # "none"
     /\ ~ContainsNewline(text.toks)
     /\ Len(Words(text)) < 15)
        => verdict = "rejected"

\* C10 as amended: a text without a line break and with fewer than 11 words is
\* rejected, whatever the syllables of its words.
C10_Under11Rejected ==
    (/\ verdict # "none"
     /\ ~ContainsNewline(text.toks)
     /\ Len(Words(text)) < 11)
        => verdict = "rejected"

\* Ten English words, five syllables in the first five and seven in the next
\* five, were rejected.
C10_Witness ==
    /\ verdict = "rejected"
    /\ text = [toks |-> <<1, 1, 1, 1, 1, 1, 1, 1, 2, 2>>, lang |-> "eng"]

\* The syllables of toks[a..b] (a line break counts none).
RECURSIVE SumFrom(_, _, _)
SumFrom(toks, a, b) == IF a > b THEN 0 ELSE toks[a] + SumFrom(toks, a + 1, b)
Breaks(toks) == {k \in DOMAIN toks : toks[k] = NL}

\* Exactly three lines, of 5, 7 and 5 syllables, said on the positions of the
\* text: with line breaks, two of them apart from a final one; without, eleven
\* to fifteen words, taken five at a time.
FiveSevenFive(toks) ==
    LET n == Len(toks)
        inner == Breaks(toks) \ {n}
    IN  IF Breaks(toks) = {}
          THEN /\ n \in 11..15
               /\ SumFrom(toks, 1, 5) = 5
               /\ SumFrom(toks, 6, 10) = 7
               /\ SumFrom(toks, 11, n) = 5
          ELSE \E p \in inner, q \in inner :
                  /\ p < q
                  /\ inner = {p, q}
                  /\ SumFrom(toks, 1, p - 1) = 5
                  /\ SumFrom(toks, p + 1, q - 1) = 7
                  /\ SumFrom(toks, q + 1, n) = 5
Accepted(t) == t.lang = "eng" /\ FiveSevenFive(t.toks)

\* The operations a task is through with, or is saving the haiku of.
Handled(tk) ==
    1..(IF tk.pc \in {"save", "write"} THEN tk.idx + 1 ELSE tk.idx)

\* C11: save_haiku_to_file is called for a create operation exactly when the
\* operation yielded a post Record whose text is detected as English (an
\* undetected language is not English) and has exactly three lines of 5, 7 and
\* 5 syllables; likes, reposts, follows and rejected posts never reach the
\* file, which holds nothing but accepted texts.
C11_HaikuIffAccepted ==
    \A i \in DOMAIN tasks :
        LET tk == tasks[i]
        IN  /\ tk.saves \subseteq Handled(tk)
            /\ \A pos \in Handled(tk) :
                  pos \in tk.saves <=>
                      \E k \in DOMAIN tk.records :
                          /\ tk.records[k].op = pos
                          /\ tk.records[k].variant = "post"
                          /\ Accepted(ItemsOf(tk)[tk.records[k].block].bytes.text)
            /\ sink # <<>> => tk.saves # {}
            /\ \A k \in DOMAIN sink : sink[k].text # NoText => Accepted(sink[k].text)

\* Thirteen unbroken English words counting 5, 7, 5 were written to the file;
\* the haiku in an undetected language, handled next, was not.
C11_Witness ==
    \E i \in DOMAIN tasks :
        /\ OpsOf(tasks[i]) = << Operation("create", PostPath, "tW"),
                                Operation("create", PostPath, "tU") >>
        /\ tasks[i].pc = "done"
        /\ tasks[i].saves = {1}
        /\ Len(tasks[i].records) = 2
        /\ sink = RecordPieces("tW", Unbroken)

SaveFailedAt(tk, pos) ==
    \E k \in DOMAIN LogAt(tk, pos) : LogAt(tk, pos)[k] = Line("error", "Failed to save haiku")

\* C12: a failed append of a haiku is logged as an error and changes nothing
\* else: the lines of the operation are the haiku line, the error and the
\* post's summary line, the task goes on with the remaining operations, and
\* when it is done it has handled every operation and produced every Record of
\* the commit.
C12_SaveFailureContained ==
    \A i \in DOMAIN tasks :
        LET tk == tasks[i]
            ops == OpsOf(tk)
        IN  \A pos \in DOMAIN ops :
              SaveFailedAt(tk, pos) =>
                  LET txt == BlockOf(ItemsOf(tk), ops[pos].cid).bytes.text
                  IN  /\ LogAt(tk, pos) =
                            << Log("info", "New haiku found:", NoCid, <<>>, txt),
                               Line("error", "Failed to save haiku"),
                               Log("info", "New post", ops[pos].cid, <<>>, txt) >>
                      /\ pos <= tk.idx
                      /\ tk.pc \in {"ops", "save", "write", "done"}
                      /\ tk.pc = "done" =>
                            /\ tk.idx = Len(ops)
                            /\ Produced(tk) = RecordsOf(ItemsOf(tk), ops)

\* The append of the haiku failed after two of its pieces were written; the
\* like after it was decoded and logged all the same.
C12_Witness ==
    \E i \in DOMAIN tasks :
        /\ OpsOf(tasks[i]) = << HaikuOp, Operation("create", LikePath, "cL") >>
        /\ SaveFailedAt(tasks[i], 1)
        /\ Len(sink) = 2
        /\ tasks[i].pc = "done"
        /\ Len(tasks[i].records) = 2
        /\ LogAt(tasks[i], 2) # <<>>

Received(kind) == inbox' = Append(inbox, kind)

\* C13: the loop never waits for a task: whenever it can read, whatever the
\* tasks of the earlier messages are doing, it can take the next binary message
\* and spawn its task; each binary message received spawns exactly one task,
\* placed after the tasks of the messages before it, and no other step adds,
\* removes or reorders tasks.
C13_SpawnWithoutWaiting ==
    [][/\ CanRecv => \A data \in StreamMsgs : ENABLED RecvBinary(data)
       /\ IF Received("binary")
            THEN \E data \in StreamMsgs : tasks' = Append(tasks, NewTask(data))
            ELSE /\ Len(tasks') = Len(tasks)
                 /\ \A i \in DOMAIN tasks : tasks'[i].msg = tasks[i].msg]_vars

\* The second message was received and its task spawned while the first
\* message's task was in the middle of writing its haiku.
C13_Witness ==
    /\ inbox = << "binary", "binary" >>
    /\ Len(tasks) = 2
    /\ tasks[1].pc = "write" /\ tasks[1].frag = 2
    /\ tasks[2].pc = "spawned"
    /\ mainpc = "recv"

\* C14: only binary messages are decoded: a step that receives an error, a
\* close frame or another non-binary message spawns no task, touches no task
\* and leaves the loop reading; the loop ends only in a step in which no
\* message is received, the one in which the stream itself ends.
C14_OnlyBinaryDecoded ==
    [][/\ (\E kind \in {"err", "close", "other"} : Received(kind))
            => /\ tasks' = tasks
               /\ sink' = sink
               /\ mainpc' = "recv"
       /\ mainpc' # mainpc
            => /\ mainpc = "recv" /\ mainpc' = "exited"
               /\ inbox' = inbox
               /\ mainlog' = Append(mainlog, Line("info", "Disconnected from Firehose."))]_vars

\* A close frame was received, no task was spawned for it, and the loop then
\* read a binary message, whose task ran to its Record.
C14_Witness ==
    /\ inbox = << "close", "binary" >>
    /\ mainpc = "recv"
    /\ Len(tasks) = 1
    /\ tasks[1].pc = "done" /\ tasks[1].records # <<>>

\* C15: for every buffer that is the encoding of a value A followed by the
\* encoding of a value B, the split is made at the end of A's encoding: the
\* metadata range decodes to exactly A and the data range to exactly B.
C15_FrameSplitRoundTrip ==
    \A a \in FrameVals, b \in FrameVals :
        (buffer = Encode(a) \o Encode(b) /\ frames.pc # "start")
            => /\ frames.pc = "split"
               /\ frames.metadata = Encode(a)
               /\ from_slice(frames.metadata) = [ok |-> TRUE, val |-> a]
               /\ from_slice(frames.data) = [ok |-> TRUE, val |-> b]

\* The envelope {"op": 1, "t": "#commit"} followed by a map holding a map was
\* split behind the envelope.
C15_Witness ==
    LET a == CborMap(<< Entry(KeyOp, CborInt(1)), Entry(KeyT, CborStr(StrCommit)) >>)
        b == CborMap(<< Entry(KeyT, CborMap(<< Entry(KeyOp, CborInt(-1)) >>)) >>)
    IN  /\ buffer = Encode(a) \o Encode(b)
        /\ frames.pc = "split"
        /\ frames.metadata = Encode(a)
        /\ frames.data = Encode(b)
        /\ Len(frames.metadata) > Len(frames.data)

\* The variant a collection names, "unknown" for every other collection.
VariantOf(collection) ==
    CASE collection = PostNs -> "post"
      [] collection = LikeNs -> "like"
      [] collection = RepostNs -> "repost"
      [] collection = FollowNs -> "follow"
      [] OTHER -> "unknown"

\* C16: the Record variant is determined by the collection, the text of the
\* path before '/': a create operation yields a post, like, repost or follow
\* Record only when its collection is exactly that collection, and an operation
\* whose collection only begins with a known one (app.bsky.feed.postgate), its
\* block found, is logged as unknown and yields no Record.
C16_VariantByExactCollection ==
    \A i \in DOMAIN tasks :
        LET tk == tasks[i]
            ops == OpsOf(tk)
        IN  /\ \A k \in DOMAIN tk.records :
                  tk.records[k].variant = VariantOf(Collection(ops[tk.records[k].op].path))
            /\ \A pos \in 1..tk.idx :
                  (/\ ops[pos].action = "create"
                   /\ Resolves(ItemsOf(tk), ops[pos].cid)
                   /\ VariantOf(Collection(ops[pos].path)) = "unknown")
                      => /\ LogAt(tk, pos) = << UnknownLine(ops[pos].path) >>
                         /\ RecordsAt(tk, pos) = <<>>

NotFoundLine(c) == Log("error", "Could not find block for CID", c, <<>>, NoText)

\* C17: the block of a create operation is resolved independently of the
\* operations before it: whenever some block of the archive has the
\* operation's cid the lookup finds one, whatever was resolved earlier, and
\* the block a Record was decoded from is the first block of the whole archive
\* with that cid.
C17_ResolutionIndependent ==
    \A i \in DOMAIN tasks :
        LET tk == tasks[i]
            ops == OpsOf(tk)
            items == ItemsOf(tk)
        IN  /\ \A pos \in 1..tk.idx :
                  (ops[pos].action = "create" /\ Resolves(items, ops[pos].cid))
                      => /\ pos \in tk.lookups
                         /\ \A k \in DOMAIN LogAt(tk, pos) :
                               LogAt(tk, pos)[k] # NotFoundLine(ops[pos].cid)
            /\ \A k \in DOMAIN tk.records :
                  LET b == tk.records[k].block
                      c == ops[tk.records[k].op].cid
                  IN  /\ items[b].cid = c
                      /\ \A j \in 1..(b - 1) : items[j].cid # c

\* A like was resolved to the third block of the archive, and the post after
\* it to the first, which is stored once more as the last.
C17_Witness ==
    \E i \in DOMAIN tasks :
        /\ OpsOf(tasks[i]) = << Operation("create", LikePath, "cL"), HaikuOp >>
        /\ ItemsOf(tasks[i]) = Car
        /\ tasks[i].pc = "done"
        /\ Len(tasks[i].records) = 2
        /\ tasks[i].records[1].block > tasks[i].records[2].block
        /\ tasks[i].records[2].block = 1

\* str::to_uppercase on an action.
Uppercased(action) ==
    CASE action = "create" -> "CREATE"
      [] action = "update" -> "UPDATE"
      [] action = "delete" -> "DELETE"

\* The summary lines of an operation: the info lines that carry its cid.
SummariesAt(tk, pos) ==
    SelectSeq(LogAt(tk, pos), LAMBDA l : l.lvl = "info" /\ l.cid = OpsOf(tk)[pos].cid)

\* A create operation of a known collection that is handled, whose block was
\* found and decodes as the Record of the collection.
Decoded(tk, pos) ==
    LET operation == OpsOf(tk)[pos]
        variant == VariantOf(Collection(operation.path))
    IN  /\ pos <= tk.idx
        /\ operation.action = "create"
        /\ variant # "unknown"
        /\ Resolves(ItemsOf(tk), operation.cid)
        /\ DecodesAs(variant, BlockOf(ItemsOf(tk), operation.cid).bytes)

\* C18: every create operation of a known collection whose block resolves and
\* whose Record decodes emits exactly one summary line, which carries the
\* uppercased action, the content-id and the summary of the variant (the text
\* of a post, the subject of a like, repost or follow), for a post whether or
\* not it was taken for a haiku.
C18_SummaryWithAction ==
    \A i \in DOMAIN tasks :
        \A pos \in DOMAIN OpsOf(tasks[i]) :
            Decoded(tasks[i], pos) =>
                LET operation == OpsOf(tasks[i])[pos]
                    bytes == BlockOf(ItemsOf(tasks[i]), operation.cid).bytes
                    lines == SummariesAt(tasks[i], pos)
                IN  /\ Len(lines) = 1
                    /\ lines[1].cid = operation.cid
                    /\ lines[1].text = bytes.text
                    /\ lines[1].subject = bytes.subject
                    /\ Uppercased(operation.action) \in {lines[1].what, lines[1].subject}

\* C18 as amended: every such operation emits exactly one summary line, which
\* names the variant ("New post", "New like", "New repost", "New follow") and
\* carries the content-id and the summary of the variant, and not the action;
\* for a post whether or not it was taken for a haiku, and whether or not the
\* haiku was saved.
C18_SummaryNamesVariant ==
    \A i \in DOMAIN tasks :
        \A pos \in DOMAIN OpsOf(tasks[i]) :
            Decoded(tasks[i], pos) =>
                LET operation == OpsOf(tasks[i])[pos]
                    bytes == BlockOf(ItemsOf(tasks[i]), operation.cid).bytes
                    lines == SummariesAt(tasks[i], pos)
                IN  /\ Len(lines) = 1
                    /\ lines[1].what = Summary(VariantOf(Collection(operation.path)))
                    /\ lines[1].cid = operation.cid
                    /\ lines[1].text = bytes.text
                    /\ lines[1].subject = bytes.subject
                    /\ Uppercased(operation.action) \notin {lines[1].what, lines[1].subject}

\* A haiku post was saved and summarised, and the like after it was summarised
\* with its subject.
C18_Witness ==
    \E i \in DOMAIN tasks :
        /\ OpsOf(tasks[i]) = << HaikuOp, Operation("create", LikePath, "cL") >>
        /\ tasks[i].pc = "done"
        /\ tasks[i].saves = {1}
        /\ LogAt(tasks[i], 1)[3] = [Log("info", "New post", "cH", <<>>, Basho) EXCEPT !.subject = NoSubject]
        /\ LogAt(tasks[i], 2) = << [Log("info", "New like", "cL", <<>>, NoText) EXCEPT !.subject = PostUri] >>

UnwrapPanic == Line("panic", "called Option::unwrap() on a None value")

\* C19: the unwrap of the operation's cid at the call of save_haiku_to_file
\* never fails: no task panics on it, every operation a haiku is saved for has
\* a cid, which some block of the archive has, and a create operation without
\* a cid takes the block-not-found path and saves nothing.
C19_UnwrapNeverFails ==
    \A i \in DOMAIN tasks :
        LET tk == tasks[i]
            ops == OpsOf(tk)
        IN  /\ \A k \in DOMAIN tk.log : tk.log[k].line # UnwrapPanic
            /\ \A pos \in tk.saves :
                  ops[pos].cid # NoCid /\ Resolves(ItemsOf(tk), ops[pos].cid)
            /\ \A pos \in 1..tk.idx :
                  (ops[pos].action = "create" /\ ops[pos].cid = NoCid)
                      => /\ LogAt(tk, pos) = << NotFoundLine(NoCid) >>
                         /\ pos \notin tk.saves

\* A post without a cid took the block-not-found path, and the haiku after it
\* reached the save with its cid and was written.
C19_Witness ==
    \E i \in DOMAIN tasks :
        /\ OpsOf(tasks[i]) = << Operation("create", PostPath, NoCid), HaikuOp >>
        /\ LogAt(tasks[i], 1) = << NotFoundLine(NoCid) >>
        /\ tasks[i].saves = {2}
        /\ tasks[i].pc = "done"
        /\ sink = RecordPieces("cH", Basho)

====
